---- MODULE Spec2Model ----
(***************************************************************************)
(* Model of WdRiscv::VecLdStInfo (src/VecLdStInfo.hpp): the per-instruction *)
(* record of a vector load/store and the operations that build it.         *)
(*                                                                         *)
(* The record is the single variable info, a TLA+ record whose fields carry *)
(* the names of the C++ data members.  Every member function is an operator *)
(* from a record (and the call's arguments) to the record after the call,   *)
(* so that a member function calling another (initIndexed calls init) is    *)
(* modelled by the same composition.  The remaining variables are history   *)
(* variables: they record the last call and its outcome and never influence *)
(* the record.                                                             *)
(***************************************************************************)
EXTENDS Integers, Sequences, FiniteSets

VARIABLES info, ndebug, status, lastCall, preLen, log, snap, net

vars == <<info, ndebug, status, lastCall, preLen, log, snap, net>>

\* ------------------------------------------------------------------------
\* Bounds and input sets.

\* Largest number of elements the model lets the element vector hold.
MaxElems == 2

\* Arguments of init: <<elemCount, elemSize, vecReg, group, isLoad>>.
Configs == { <<4, 4, 8, 1, TRUE>>, <<2, 8, 16, 2, FALSE>> }

\* Extra arguments of initIndexed: <<ixReg, ixGroup>>.
IndexArgs == { <<24, 4>> }

\* Extra argument of initStrided.
Strides == { 16, 64 }

\* First argument of setFieldCount.
FieldCounts == { 2, 4 }

\* Second argument of setFieldCount: <<>> when the caller omits it.
SegArgs == { <<>>, <<TRUE>>, <<FALSE>> }

\* Arguments of setLastElem: <<pa, pa2, data>>.
PatchArgs == { <<64, 65, 5>>, <<80, 80, 6>> }

\* ------------------------------------------------------------------------
\* VecLdStElem.

\* VecLdStElem(va, pa, pa2, data, ix, skipped, field): note the order of the
\* last two parameters and of the member initialisers.
VecLdStElem(va, pa, pa2, data, ix, skipped, field) ==
  [va_ |-> va, pa_ |-> pa, pa2_ |-> pa2, data_ |-> data,
   ix_ |-> ix, field_ |-> field, skip_ |-> skipped]

\* VecLdStElem(): every member keeps its default initialiser.
DefaultElem ==
  [va_ |-> 0, pa_ |-> 0, pa2_ |-> 0, data_ |-> 0,
   ix_ |-> 0, field_ |-> 0, skip_ |-> FALSE]

\* Elements the execution engine appends: an active element of lane 3 with
\* provisional (zero) translation results, and a masked-off element of lane 1,
\* field 1.
ElemInputs ==
  { VecLdStElem(16, 0, 0, 0, 3, FALSE, 0),
    VecLdStElem(32, 32, 33, 7, 1, TRUE, 1) }

\* ------------------------------------------------------------------------
\* std::vector operations used by the record.

\* sizeof(VecLdStElem): four uint64_t, two unsigned, one bool, padded to 8.
ElemBytes == 48

\* Largest size_t.  The checker's integers are 32 bits wide, so 2^31 - 1
\* stands for 2^64 - 1; only "larger than any size the vector can take"
\* matters below.
SIZE_MAX == (1073741824 - 1) + 1073741824

\* std::vector<VecLdStElem>::max_size().
max_size == SIZE_MAX \div ElemBytes

\* size_t subtraction a - b, wrapping modulo SIZE_MAX + 1.
SizeSub(a, b) == IF a >= b THEN a - b ELSE SIZE_MAX - (b - a) + 1

\* elems_.push_back(elem).
push_back(v, elem) ==
  [i \in 1..(Len(v) + 1) |-> IF i <= Len(v) THEN v[i] ELSE elem]

\* elems_.resize(n) for an n the vector can take: truncate, or pad with
\* value-initialised elements.
resize(v, n) ==
  [i \in 1..n |-> IF i <= Len(v) THEN v[i] ELSE DefaultElem]

\* std::all_of(first, last, pred) over v from position i: stops at the first
\* element for which pred is false.
RECURSIVE all_of_skip(_, _)
all_of_skip(v, i) ==
  IF i > Len(v) THEN TRUE
  ELSE IF ~ v[i].skip_ THEN FALSE
  ELSE all_of_skip(v, i + 1)

\* ------------------------------------------------------------------------
\* VecLdStInfo.

\* The record after construction: the default member initialisers.
NewInfo ==
  [elemCount_ |-> 0, elemSize_ |-> 0, vec_ |-> 0, ixVec_ |-> 0, fields_ |-> 0,
   group_ |-> 0, ixGroup_ |-> 0, stride_ |-> 0, isLoad_ |-> FALSE,
   isIndexed_ |-> FALSE, isSegmented_ |-> FALSE, isStrided_ |-> FALSE,
   elems_ |-> <<>>]

\* Variant of empty that tests the element size instead of the vector.
empty_bySize(r) == r.elemSize_ = 0

\* bool empty() const
empty(r) == Len(r.elems_) = 0

\* Variant of clear that resets every member.
clear_all(r) == NewInfo

\* Variant of clear that forgets to zero the element size.
clear_keepSize(r) == [r EXCEPT !.elems_ = <<>>]

\* void clear()
clear(r) == [r EXCEPT !.elemSize_ = 0, !.elems_ = <<>>]

\* Variant of init that also empties the element vector.
init_clearElems(r, elemCount, elemSize, vecReg, group, isLoad) ==
  [r EXCEPT !.elemCount_ = elemCount,
            !.elemSize_ = elemSize,
            !.vec_ = vecReg,
            !.group_ = group,
            !.isLoad_ = isLoad,
            !.isIndexed_ = FALSE,
            !.isSegmented_ = FALSE,
            !.isStrided_ = FALSE,
            !.ixVec_ = 0,
            !.fields_ = 0,
            !.elems_ = <<>>]

\* Variant of init that leaves the field count and the segment flag alone.
init_keepFields(r, elemCount, elemSize, vecReg, group, isLoad) ==
  [r EXCEPT !.elemCount_ = elemCount,
            !.elemSize_ = elemSize,
            !.vec_ = vecReg,
            !.group_ = group,
            !.isLoad_ = isLoad,
            !.isIndexed_ = FALSE,
            !.isStrided_ = FALSE,
            !.ixVec_ = 0]

\* Variant of init that also resets the index group multiplier and the stride.
init_resetAll(r, elemCount, elemSize, vecReg, group, isLoad) ==
  [r EXCEPT !.elemCount_ = elemCount,
            !.elemSize_ = elemSize,
            !.vec_ = vecReg,
            !.group_ = group,
            !.isLoad_ = isLoad,
            !.isIndexed_ = FALSE,
            !.isSegmented_ = FALSE,
            !.isStrided_ = FALSE,
            !.ixVec_ = 0,
            !.fields_ = 0,
            !.ixGroup_ = 0,
            !.stride_ = 0]

\* Variant of init that does not reset the addressing-mode selectors.
init_keepModes(r, elemCount, elemSize, vecReg, group, isLoad) ==
  [r EXCEPT !.elemCount_ = elemCount,
            !.elemSize_ = elemSize,
            !.vec_ = vecReg,
            !.group_ = group,
            !.isLoad_ = isLoad,
            !.isSegmented_ = FALSE,
            !.ixVec_ = 0,
            !.fields_ = 0]

\* void init(elemCount, elemSize, vecReg, group, isLoad)
init(r, elemCount, elemSize, vecReg, group, isLoad) ==
  [r EXCEPT !.elemCount_ = elemCount,
            !.elemSize_ = elemSize,
            !.vec_ = vecReg,
            !.group_ = group,
            !.isLoad_ = isLoad,
            !.isIndexed_ = FALSE,
            !.isSegmented_ = FALSE,
            !.isStrided_ = FALSE,
            !.ixVec_ = 0,
            !.fields_ = 0]

\* Variant of initIndexed that clears the record before configuring it.
initIndexed_fromClear(r, elemCount, elemSize, vecReg, ixReg, group, ixGroup, isLoad) ==
  [init(clear(r), elemCount, elemSize, vecReg, group, isLoad)
     EXCEPT !.isIndexed_ = TRUE, !.ixVec_ = ixReg, !.ixGroup_ = ixGroup]

\* void initIndexed(elemCount, elemSize, vecReg, ixReg, group, ixGroup, isLoad)
initIndexed(r, elemCount, elemSize, vecReg, ixReg, group, ixGroup, isLoad) ==
  [init(r, elemCount, elemSize, vecReg, group, isLoad)
     EXCEPT !.isIndexed_ = TRUE, !.ixVec_ = ixReg, !.ixGroup_ = ixGroup]

\* Variant of initStrided that sets the base members itself and leaves the
\* other selector alone instead of calling init.
initStrided_noInit(r, elemCount, elemSize, vecReg, group, stride, isLoad) ==
  [r EXCEPT !.elemCount_ = elemCount,
            !.elemSize_ = elemSize,
            !.vec_ = vecReg,
            !.group_ = group,
            !.isLoad_ = isLoad,
            !.isSegmented_ = FALSE,
            !.fields_ = 0,
            !.isStrided_ = TRUE,
            !.stride_ = stride]

\* void initStrided(elemCount, elemSize, vecReg, group, stride, isLoad)
initStrided(r, elemCount, elemSize, vecReg, group, stride, isLoad) ==
  [init(r, elemCount, elemSize, vecReg, group, isLoad)
     EXCEPT !.isStrided_ = TRUE, !.stride_ = stride]

\* Variant of setFieldCount whose omitted second argument keeps the flag.
setFieldCount_keepSeg(r, fields, seg) ==
  LET isSeg == IF seg = <<>> THEN r.isSegmented_ ELSE seg[1]
  IN  [r EXCEPT !.fields_ = fields, !.isSegmented_ = isSeg]

\* void setFieldCount(fields, isSeg = false): seg is <<>> when the caller
\* omits the second argument.
setFieldCount(r, fields, seg) ==
  LET isSeg == IF seg = <<>> THEN FALSE ELSE seg[1]
  IN  [r EXCEPT !.fields_ = fields, !.isSegmented_ = isSeg]

\* Variant of addElem that marks an element beyond the active length skipped.
addElem_tailSkip(r, elem) ==
  [r EXCEPT !.elems_ =
     push_back(r.elems_,
               [elem EXCEPT !.skip_ = elem.skip_ \/ elem.ix_ >= r.elemCount_])]

\* Variant of addElem that does not append an element already present.
addElem_dedup(r, elem) ==
  IF \E i \in 1..Len(r.elems_) : r.elems_[i] = elem
  THEN r
  ELSE [r EXCEPT !.elems_ = push_back(r.elems_, elem)]

\* void addElem(const VecLdStElem& elem)
addElem(r, elem) == [r EXCEPT !.elems_ = push_back(r.elems_, elem)]

\* Variant of allSkipped that uses std::any_of.
allSkipped_any(r) == \E i \in 1..Len(r.elems_) : r.elems_[i].skip_

\* bool allSkipped() const
allSkipped(r) == all_of_skip(r.elems_, 1)

\* Variant of setLastElem that writes elems_.front().
setLastElem_front(r, pa, pa2, data) ==
  IF Len(r.elems_) = 0
  THEN { [info |-> r, status |-> "assert_abort"],
         [info |-> r, status |-> "segv"],
         [info |-> r, status |-> "oob_write"] }
  ELSE { [info |-> [r EXCEPT !.elems_[1].pa_ = pa,
                             !.elems_[1].pa2_ = pa2,
                             !.elems_[1].data_ = data],
          status |-> "ok"] }

\* void setLastElem(pa, pa2, data): the set of outcomes of the call.  The
\* function has no check of its own: elems_.back() on an empty vector is
\* undefined behaviour, which a build turns into an abort (a library built
\* with container assertions), a fault on the store (no storage allocated),
\* or three stores into the bytes in front of the vector's storage, after
\* which the call returns.
setLastElem(r, pa, pa2, data) ==
  IF Len(r.elems_) = 0
  THEN { [info |-> r, status |-> "assert_abort"],
         [info |-> r, status |-> "segv"],
         [info |-> r, status |-> "oob_write"] }
  ELSE LET n == Len(r.elems_)
       IN  { [info |-> [r EXCEPT !.elems_[n].pa_ = pa,
                                 !.elems_[n].pa2_ = pa2,
                                 !.elems_[n].data_ = data],
              status |-> "ok"] }

\* Variant of removeLastElem whose assert demands more than one element.
removeLastElem_strict(r) ==
  IF ~ ndebug /\ Len(r.elems_) <= 1
  THEN [info |-> r, status |-> "assert_abort"]
  ELSE LET n == SizeSub(Len(r.elems_), 1)
       IN  IF n > max_size
           THEN [info |-> r, status |-> "length_error"]
           ELSE [info |-> [r EXCEPT !.elems_ = resize(r.elems_, n)],
                 status |-> "ok"]

\* Variant of removeLastElem that erases the first element.
removeLastElem_front(r) ==
  IF ~ ndebug /\ Len(r.elems_) = 0
  THEN [info |-> r, status |-> "assert_abort"]
  ELSE LET n == SizeSub(Len(r.elems_), 1)
       IN  IF n > max_size
           THEN [info |-> r, status |-> "length_error"]
           ELSE [info |-> [r EXCEPT !.elems_ = Tail(r.elems_)],
                 status |-> "ok"]

\* Variant of removeLastElem that returns early on an empty vector.
removeLastElem_silent(r) ==
  IF Len(r.elems_) = 0
  THEN [info |-> r, status |-> "ok"]
  ELSE [info |-> [r EXCEPT !.elems_ = resize(r.elems_, Len(r.elems_) - 1)],
        status |-> "ok"]

\* void removeLastElem(): the outcome of the call.  assert is compiled out
\* when NDEBUG is defined; size() - 1 is then computed in size_t and
\* resize() throws std::length_error, leaving the vector as it was, when the
\* requested size exceeds max_size().
removeLastElem(r) ==
  IF ~ ndebug /\ Len(r.elems_) = 0
  THEN [info |-> r, status |-> "assert_abort"]
  ELSE LET n == SizeSub(Len(r.elems_), 1)
       IN  IF n > max_size
           THEN [info |-> r, status |-> "length_error"]
           ELSE [info |-> [r EXCEPT !.elems_ = resize(r.elems_, n)],
                 status |-> "ok"]

\* ------------------------------------------------------------------------
\* The state machine: one action per member function the engine calls.
\*
\* History variables: status is the outcome of the last call, lastCall its
\* name and arguments, preLen the number of elements before it.  log holds
\* the arguments of the addElem calls since the record was last empty by
\* construction or clear, and is valid as long as no setLastElem or
\* removeLastElem was called since.  snap holds, after addElem and after a
\* removeLastElem that directly follows an addElem, the element vector as it
\* was before that addElem.  net is the number of addElem calls minus the
\* number of removeLastElem calls that returned normally, since construction
\* or the last clear.

\* Outcomes after which the process no longer runs code of the source: the
\* process was aborted or killed, or it continues after undefined behaviour.
Terminated == { "assert_abort", "segv", "oob_write" }

Running == status \notin Terminated

NoLog == [valid |-> FALSE, elems |-> <<>>]

Init ==
  /\ info = NewInfo
  /\ ndebug \in BOOLEAN
  /\ status = "ok"
  /\ lastCall = [op |-> "construct", args |-> <<>>]
  /\ preLen = 0
  /\ net = 0
  /\ log = [valid |-> TRUE, elems |-> <<>>]
  /\ snap = <<>>

CallClear ==
  /\ Running
  /\ net' = 0
  /\ preLen' = Len(info.elems_)
  /\ info' = clear(info)
  /\ status' = "ok"
  /\ lastCall' = [op |-> "clear", args |-> <<>>]
  /\ log' = [valid |-> TRUE, elems |-> <<>>]
  /\ snap' = <<>>
  /\ UNCHANGED ndebug

CallInit ==
  /\ Running
  /\ UNCHANGED net
  /\ preLen' = Len(info.elems_)
  /\ \E c \in Configs :
       /\ info' = init(info, c[1], c[2], c[3], c[4], c[5])
       /\ lastCall' = [op |-> "init", args |-> c]
  /\ status' = "ok"
  /\ snap' = <<>>
  /\ UNCHANGED <<ndebug, log>>

CallInitIndexed ==
  /\ Running
  /\ UNCHANGED net
  /\ preLen' = Len(info.elems_)
  /\ \E c \in Configs, x \in IndexArgs :
       /\ info' = initIndexed(info, c[1], c[2], c[3], x[1], c[4], x[2], c[5])
       /\ lastCall' = [op |-> "initIndexed",
                       args |-> <<c[1], c[2], c[3], x[1], c[4], x[2], c[5]>>]
  /\ status' = "ok"
  /\ snap' = <<>>
  /\ UNCHANGED <<ndebug, log>>

CallInitStrided ==
  /\ Running
  /\ UNCHANGED net
  /\ preLen' = Len(info.elems_)
  /\ \E c \in Configs, s \in Strides :
       /\ info' = initStrided(info, c[1], c[2], c[3], c[4], s, c[5])
       /\ lastCall' = [op |-> "initStrided",
                       args |-> <<c[1], c[2], c[3], c[4], s, c[5]>>]
  /\ status' = "ok"
  /\ snap' = <<>>
  /\ UNCHANGED <<ndebug, log>>

CallSetFieldCount ==
  /\ Running
  /\ UNCHANGED net
  /\ preLen' = Len(info.elems_)
  /\ \E f \in FieldCounts, s \in SegArgs :
       /\ info' = setFieldCount(info, f, s)
       /\ lastCall' = [op |-> "setFieldCount", args |-> <<f>> \o s]
  /\ status' = "ok"
  /\ snap' = <<>>
  /\ UNCHANGED <<ndebug, log>>

CallAddElem ==
  /\ Running
  /\ net' = net + 1
  /\ preLen' = Len(info.elems_)
  /\ Len(info.elems_) < MaxElems
  /\ \E e \in ElemInputs :
       /\ info' = addElem(info, e)
       /\ lastCall' = [op |-> "addElem", args |-> <<e>>]
       /\ log' = IF log.valid
                 THEN [log EXCEPT !.elems = Append(log.elems, e)]
                 ELSE log
  /\ status' = "ok"
  /\ snap' = <<info.elems_>>
  /\ UNCHANGED ndebug

CallSetLastElem ==
  /\ Running
  /\ UNCHANGED net
  /\ preLen' = Len(info.elems_)
  /\ \E a \in PatchArgs :
       /\ \E o \in setLastElem(info, a[1], a[2], a[3]) :
            /\ info' = o.info
            /\ status' = o.status
       /\ lastCall' = [op |-> "setLastElem", args |-> a]
  /\ log' = NoLog
  /\ snap' = <<>>
  /\ UNCHANGED ndebug

CallRemoveLastElem ==
  /\ Running
  /\ preLen' = Len(info.elems_)
  /\ LET o == removeLastElem(info)
     IN  /\ info' = o.info
         /\ status' = o.status
         /\ net' = IF o.status = "ok" THEN net - 1 ELSE net
  /\ lastCall' = [op |-> "removeLastElem", args |-> <<>>]
  /\ log' = NoLog
  /\ snap' = IF lastCall.op = "addElem" THEN snap ELSE <<>>
  /\ UNCHANGED ndebug

Next ==
  \/ CallClear
  \/ CallInit
  \/ CallInitIndexed
  \/ CallInitStrided
  \/ CallSetFieldCount
  \/ CallAddElem
  \/ CallSetLastElem
  \/ CallRemoveLastElem

Spec == Init /\ [][Next]_vars

\* ------------------------------------------------------------------------
\* Properties.

\* The members of the record other than those in S have the same value in
\* r1 and r2.
SameExcept(r1, r2, S) == \A f \in (DOMAIN r1) \ S : r1[f] = r2[f]

\* Two elements are equal member by member.
SameElem(a, b) ==
  /\ a.va_ = b.va_
  /\ a.pa_ = b.pa_
  /\ a.pa2_ = b.pa2_
  /\ a.data_ = b.data_
  /\ a.ix_ = b.ix_
  /\ a.field_ = b.field_
  /\ a.skip_ = b.skip_

\* C1: as long as only configure calls and addElem calls were made since the
\* record was last empty by construction or clear, the element vector has as
\* many entries as addElem was called, and entry i is, member by member, the
\* argument of the i-th addElem call.
C1_AppendOrder ==
  log.valid =>
    /\ Len(info.elems_) = Len(log.elems)
    /\ \A i \in 1..Len(log.elems) : SameElem(info.elems_[i], log.elems[i])

\* C1 witness: after a configure call, the same element was appended twice
\* and nothing else touched the vector.
C1_Witness ==
  /\ log.valid
  /\ lastCall.op = "addElem"
  /\ info.elemSize_ # 0
  /\ Len(log.elems) >= 2
  /\ log.elems[1] = log.elems[2]

\* C2: allSkipped returns true exactly when every element of the vector has
\* skip_ set; it is true on an empty record and false as soon as the vector
\* holds an element with skip_ clear.
C2_AllSkipped ==
  /\ allSkipped(info) <=> (\A i \in 1..Len(info.elems_) : info.elems_[i].skip_)
  /\ empty(info) => allSkipped(info)
  /\ (\E i \in 1..Len(info.elems_) : ~ info.elems_[i].skip_) => ~ allSkipped(info)

\* C2 witness: a skipped element followed by an active one.
C2_Witness ==
  /\ Len(info.elems_) >= 2
  /\ info.elems_[1].skip_
  /\ ~ info.elems_[2].skip_
  /\ ~ allSkipped(info)

\* C3: setLastElem(pa, pa2, data) on a non-empty vector returns normally and
\* sets pa_, pa2_ and data_ of the last element to its arguments; the other
\* members of that element, every other element, the length of the vector and
\* every other member of the record keep their values.
C3_SetLastElemFrame ==
  [][ (lastCall'.op = "setLastElem" /\ Len(info.elems_) > 0) =>
        LET n == Len(info.elems_)
            old == info.elems_[n]
            new == info'.elems_[n]
        IN  /\ status' = "ok"
            /\ Len(info'.elems_) = n
            /\ new.pa_ = lastCall'.args[1]
            /\ new.pa2_ = lastCall'.args[2]
            /\ new.data_ = lastCall'.args[3]
            /\ new.va_ = old.va_
            /\ new.ix_ = old.ix_
            /\ new.field_ = old.field_
            /\ new.skip_ = old.skip_
            /\ \A i \in 1..(n - 1) : info'.elems_[i] = info.elems_[i]
            /\ SameExcept(info, info', {"elems_"}) ]_vars

\* C3 witness: the last of two elements, a skipped one of field 1, was
\* patched with two different physical addresses; the first element differs.
C3_Witness ==
  /\ lastCall.op = "setLastElem"
  /\ status = "ok"
  /\ Len(info.elems_) >= 2
  /\ info.elems_[Len(info.elems_)].skip_
  /\ info.elems_[Len(info.elems_)].field_ = 1
  /\ info.elems_[Len(info.elems_)].pa_ # info.elems_[Len(info.elems_)].pa2_
  /\ info.elems_[1].pa_ # info.elems_[Len(info.elems_)].pa_

\* C4: removeLastElem on a non-empty vector returns normally, shortens the
\* vector by exactly one and keeps the remaining elements as they were; when
\* it directly follows addElem, the vector is again what it was before that
\* addElem.
C4_RemoveLastElem ==
  [][ (lastCall'.op = "removeLastElem" /\ Len(info.elems_) > 0) =>
        /\ status' = "ok"
        /\ Len(info'.elems_) = Len(info.elems_) - 1
        /\ \A i \in 1..Len(info'.elems_) : info'.elems_[i] = info.elems_[i]
        /\ SameExcept(info, info', {"elems_"})
        /\ lastCall.op = "addElem" =>
             /\ info.elems_ = snap[1] \o lastCall.args
             /\ info'.elems_ = snap[1] ]_vars

\* C4 witness: an addElem on a non-empty vector was undone, and one element
\* remains.
C4_Witness ==
  /\ lastCall.op = "removeLastElem"
  /\ status = "ok"
  /\ snap # <<>>
  /\ Len(snap[1]) >= 1
  /\ Len(info.elems_) >= 1

\* C5: after clear the record is empty and its element size is 0, whatever
\* the record held before.
C5_ClearEmpties ==
  lastCall.op = "clear" =>
    /\ empty(info)
    /\ Len(info.elems_) = 0
    /\ info.elemSize_ = 0

\* C5 witness: clear was called on a configured record that held elements.
C5_Witness ==
  /\ lastCall.op = "clear"
  /\ preLen >= 2
  /\ info.elemCount_ # 0
  /\ info.isStrided_

\* C6: isIndexed_ and isStrided_ are never both true.
C6_ModesExclusive == ~ (info.isIndexed_ /\ info.isStrided_)

\* C6 witness: initStrided was called on a record that had been configured by
\* initIndexed and still holds the elements appended since.
C6_Witness ==
  /\ lastCall.op = "initStrided"
  /\ info.ixGroup_ # 0
  /\ log.valid
  /\ Len(info.elems_) >= 1
  /\ info.isStrided_

\* C7: right after initIndexed isIndexed_ is true and isStrided_ false; right
\* after initStrided isStrided_ is true and isIndexed_ false; right after
\* init both are false.
C7_ModeAfterConfigure ==
  /\ lastCall.op = "initIndexed" => info.isIndexed_ /\ ~ info.isStrided_
  /\ lastCall.op = "initStrided" => info.isStrided_ /\ ~ info.isIndexed_
  /\ lastCall.op = "init" => ~ info.isIndexed_ /\ ~ info.isStrided_

\* C7 witness: init was called on a record that had been configured by both
\* initIndexed and initStrided before.
C7_Witness ==
  /\ lastCall.op = "init"
  /\ info.ixGroup_ # 0
  /\ info.stride_ # 0
  /\ ~ info.isIndexed_
  /\ ~ info.isStrided_

\* Outcomes in which a call did not return normally.
Failed == { "assert_abort", "length_error", "segv" }

\* C8: removeLastElem on an empty vector never returns normally (the assert
\* aborts, or without it resize throws) and leaves the vector empty.
C8_RemoveOnEmptyFails ==
  (lastCall.op = "removeLastElem" /\ preLen = 0) =>
    /\ status \in { "assert_abort", "length_error" }
    /\ Len(info.elems_) = 0

\* C8 witness: removeLastElem was called right after clear in a build that
\* keeps the assert.
C8_Witness ==
  /\ lastCall.op = "removeLastElem"
  /\ preLen = 0
  /\ ~ ndebug
  /\ status = "assert_abort"

\* C9: setLastElem on an empty vector does not return normally: it is
\* detected as a failure.
C9_SetLastOnEmptyFails ==
  (lastCall.op = "setLastElem" /\ preLen = 0) => status \in Failed

\* C10: setFieldCount(f, s) sets fields_ to f and isSegmented_ to s, or to
\* false when s is omitted, and changes no other member of the record.
C10_SetFieldCount ==
  [][ lastCall'.op = "setFieldCount" =>
        LET a == lastCall'.args
        IN  /\ status' = "ok"
            /\ info'.fields_ = a[1]
            /\ info'.isSegmented_ = (IF Len(a) = 1 THEN FALSE ELSE a[2])
            /\ SameExcept(info, info', {"fields_", "isSegmented_"}) ]_vars

\* C10 witness: setFieldCount(4) without the second argument on an indexed
\* record that holds elements.
C10_Witness ==
  /\ lastCall.op = "setFieldCount"
  /\ lastCall.args = <<4>>
  /\ info.fields_ = 4
  /\ ~ info.isSegmented_
  /\ info.isIndexed_
  /\ Len(info.elems_) >= 1

\* The configure calls.
ConfigureOps == { "init", "initIndexed", "initStrided" }

\* C11 (as stated): a record that holds elements becomes empty only by clear.
C11_OnlyClearEmpties ==
  [][ (Len(info.elems_) > 0 /\ Len(info'.elems_) = 0) =>
        lastCall'.op = "clear" ]_vars

\* C11 (amended): an empty record comes to hold elements only by addElem; a
\* record that holds elements becomes empty only by clear or by
\* removeLastElem on a vector of exactly one element.
C11_EmptyPopulated ==
  [][ /\ (Len(info.elems_) = 0 /\ Len(info'.elems_) > 0) =>
           lastCall'.op = "addElem"
      /\ (Len(info.elems_) > 0 /\ Len(info'.elems_) = 0) =>
           \/ lastCall'.op = "clear"
           \/ lastCall'.op = "removeLastElem" /\ Len(info.elems_) = 1 ]_vars

\* C11 witness: removeLastElem removed the only element of the vector.
C11_Witness ==
  /\ lastCall.op = "removeLastElem"
  /\ status = "ok"
  /\ preLen = 1
  /\ Len(info.elems_) = 0

C13_NoOtherFailure ==
  /\ (lastCall.op \notin { "setLastElem", "removeLastElem" } \/ preLen > 0) =>
       status = "ok"
  /\ empty(info) \in BOOLEAN
  /\ allSkipped(info) \in BOOLEAN

\* C13 witness: removeLastElem returned normally on a vector of one element
\* in a build that keeps the assert.
C13_Witness ==
  /\ lastCall.op = "removeLastElem"
  /\ preLen = 1
  /\ ~ ndebug
  /\ status = "ok"

\* C14: clear changes no member other than elemSize_ and elems_.
C14_ClearFrame ==
  [][ lastCall'.op = "clear" =>
        SameExcept(info, info', {"elemSize_", "elems_"}) ]_vars

\* C14 witness: clear was called on a segmented, indexed load that had been
\* strided before; every member clear leaves alone differs from its default.
C14_Witness ==
  /\ lastCall.op = "clear"
  /\ preLen >= 1
  /\ info.elemCount_ # 0
  /\ info.vec_ # 0
  /\ info.ixVec_ # 0
  /\ info.fields_ # 0
  /\ info.group_ # 0
  /\ info.ixGroup_ # 0
  /\ info.stride_ # 0
  /\ info.isLoad_
  /\ info.isIndexed_
  /\ info.isSegmented_

\* C15: init, initIndexed and initStrided leave fields_ at 0 and
\* isSegmented_ false whatever they were, in particular right after
\* setFieldCount; so a record has a field count or the segment flag only when
\* its last call other than addElem, setLastElem, removeLastElem and clear
\* was setFieldCount.
C15_ConfigureResetsFields ==
  [][ /\ lastCall'.op \in ConfigureOps =>
           info'.fields_ = 0 /\ ~ info'.isSegmented_
      /\ (lastCall.op = "setFieldCount" /\ lastCall'.op \in ConfigureOps) =>
           info.fields_ # 0 /\ info'.fields_ = 0 /\ ~ info'.isSegmented_
      /\ (info'.fields_ # 0 \/ info'.isSegmented_) =>
           \/ lastCall'.op = "setFieldCount"
           \/ /\ lastCall'.op \notin ConfigureOps
              /\ info'.fields_ = info.fields_
              /\ info'.isSegmented_ = info.isSegmented_ ]_vars

\* C15 witness: initStrided on a record that holds elements; no field count.
C15_Witness ==
  /\ lastCall.op = "initStrided"
  /\ preLen >= 1
  /\ info.fields_ = 0
  /\ ~ info.isSegmented_

\* C16: empty returns true exactly when the number of addElem calls minus the
\* number of removeLastElem calls that returned normally, since construction
\* or the last clear, is zero; setLastElem, setFieldCount and the configure
\* calls do not change what it returns.
C16_EmptyIffNoElems ==
  /\ [](empty(info) <=> net = 0)
  /\ [](empty(info) <=> Len(info.elems_) = 0)
  /\ [][ lastCall'.op \in ConfigureOps \cup { "setLastElem", "setFieldCount" } =>
           (empty(info') <=> empty(info)) ]_vars

\* C16 witness: as many removeLastElem as addElem calls on a configured
\* record, which is empty again.
C16_Witness ==
  /\ lastCall.op = "removeLastElem"
  /\ status = "ok"
  /\ net = 0
  /\ info.elemSize_ # 0
  /\ empty(info)

\* C17: init, initIndexed, initStrided and setFieldCount leave the element
\* vector as it is.
C17_ConfigureKeepsElems ==
  [][ lastCall'.op \in ConfigureOps \cup { "setFieldCount" } =>
        info'.elems_ = info.elems_ ]_vars

\* C17 witness: initIndexed on a record that holds two elements, which are
\* still there.
C17_Witness ==
  /\ lastCall.op = "initIndexed"
  /\ preLen >= 2
  /\ Len(info.elems_) >= 2

\* C18: init and initStrided set ixVec_ to 0 and leave ixGroup_ as it is;
\* init and initIndexed leave stride_ as it is.
C18_StaleModeMetadata ==
  [][ /\ lastCall'.op \in { "init", "initStrided" } =>
           info'.ixVec_ = 0 /\ info'.ixGroup_ = info.ixGroup_
      /\ lastCall'.op \in { "init", "initIndexed" } =>
           info'.stride_ = info.stride_ ]_vars

\* C18 witness: after initStrided the index group multiplier of an earlier
\* initIndexed is still there although the record is not indexed.
C18_Witness ==
  /\ lastCall.op = "initStrided"
  /\ info.ixGroup_ = 4
  /\ info.ixVec_ = 0
  /\ ~ info.isIndexed_
====
